---- MODULE Spec2Model ----
(***************************************************************************)
(* A model of the two programs of the repository:                          *)
(*   Australia/australia (1).py  relocate_animals, the greedy placement of  *)
(*                               animals into states, and its caller        *)
(*   JAPAN/japan.py              main, the analyse / reforge loop           *)
(***************************************************************************)
EXTENDS Integers, Sequences, FiniteSets, TLC

(***************************************************************************)
(* Bounds of the model.                                                    *)
(***************************************************************************)
\* longest list of animals (names unique) handed to relocate_animals
NumAnimals == 4
\* longest list of animals when names may repeat
DupAnimals == 4
\* how many times the caller calls relocate_animals on the same list
MaxCalls == 2
\* most blade lines of a blueprint file
MaxLines == 2
\* widest blade the handle of a blueprint allows
MaxWidth == 2
\* how many times the user is asked to reforge before the model stops
MaxReforges == 2

VARIABLES
    animals,    \* the list: records [name, threat, state] (habitat is never read)
    graph,      \* the module-level dict ADJACENT_STATES
    occupied,   \* relocate_animals' local dict: state -> animal name
    idx,        \* position of the outer loop `for animal in animals`
    sidx,       \* position of the inner loop `for state in state_order`
    pc,         \* "scan", "returned" or "KeyError" ("idle": not running)
    call,       \* which call of relocate_animals on this list is running
    snapshot,   \* what get_state() gave for each animal after the previous call
    relocated_count,  \* main's count after a call (-1 before the first return)
    perfect_blade,    \* perfect_katana.bp: the number of '#' of each blade line
    imperfect_blade,  \* the imperfect blueprint: the same, for its blade lines
    max_width,        \* len(separator_line) - 2 of the imperfect blueprint
    min_similarity,   \* float(sys.argv[2]) as a fraction <<numerator, denominator>>
    score,            \* the last similarity score, as a fraction
    output,           \* the marker lines japan.py has printed so far
    reforges,         \* how many times reforge_imperfect_katana has run
    jpc               \* where japan.py's main is

ausVars == <<animals, graph, occupied, idx, sidx, pc, call, snapshot, relocated_count>>

japanVars == <<perfect_blade, imperfect_blade, max_width, min_similarity, score,
               output, reforges, jpc>>

vars == <<ausVars, japanVars>>

(***************************************************************************)
(* australia (1).py: the data.                                             *)
(***************************************************************************)
ACT == "ACT"

\* the order with two neighbours exchanged
state_order_Swapped == <<"NSW", "VIC", "QLD", "TAS", "SA", "NT", "WA">>

state_order == <<"NSW", "QLD", "VIC", "TAS", "SA", "NT", "WA">>

States == {state_order[n] : n \in 1..Len(state_order)}

ADJACENT_STATES ==
    [s \in States |->
        CASE s = "NSW" -> <<"VIC", "SA", "QLD">>
          [] s = "QLD" -> <<"NT", "SA", "NSW">>
          [] s = "VIC" -> <<"SA", "NSW">>
          [] s = "TAS" -> <<>>
          [] s = "SA"  -> <<"WA", "NT", "QLD", "NSW", "VIC">>
          [] s = "NT"  -> <<"WA", "SA", "QLD">>
          [] s = "WA"  -> <<"SA", "NT">>]

\* a threat that names no animal of the list
NoSuchName == 0

\* Python's None for a failed lookup
None == 0

Range(seq) == {seq[n] : n \in 1..Len(seq)}

\* FictionalAnimal.__init__: the state starts at ACT
FictionalAnimal(name, threat) == [name |-> name, threat |-> threat, state |-> ACT]

get_state(a) == a.state

\* a truthiness test of the table entry: a state without neighbours is refused
set_state_Truthy(a, s, g) ==
    IF (s \in DOMAIN g /\ g[s] # <<>>) \/ s = ACT THEN [a EXCEPT !.state = s] ELSE a

\* FictionalAnimal.set_state: an invalid state is ignored
set_state(a, s, g) ==
    IF s \in DOMAIN g \/ s = ACT THEN [a EXCEPT !.state = s] ELSE a

(***************************************************************************)
(* relocate_animals: the checks of one candidate state.                    *)
(***************************************************************************)
\* next((a for a in animals if a.name == name), None): the first match
FindByName(as, name) ==
    IF \E k \in 1..Len(as) : as[k].name = name
    THEN CHOOSE k \in 1..Len(as) :
            /\ as[k].name = name
            /\ \A m \in 1..(k - 1) : as[m].name # name
    ELSE None

\* the occupancy test left out
IsOccupied_Never(occ, s) == FALSE

\* `if state in occupied`
IsOccupied(occ, s) == s \in DOMAIN occ

\* ADJACENT_STATES.get(state, [])
GetAdjacent(g, s) == IF s \in DOMAIN g THEN g[s] ELSE <<>>

\* check (1) firing for a threat that has not been placed either
SameStateViolation_Unplaced(as, a, s) ==
    LET t == FindByName(as, a.threat)
    IN  t # None /\ get_state(as[t]) \in {s, ACT}

\* (1) the threat animal exists and is in the candidate state
SameStateViolation(as, a, s) ==
    LET t == FindByName(as, a.threat)
    IN  t # None /\ get_state(as[t]) = s

\* (2) the threat animal exists and is in a state adjacent to the candidate
AdjacencyViolation(as, a, s, g) ==
    LET t == FindByName(as, a.threat)
    IN  t # None /\ get_state(as[t]) \in Range(GetAdjacent(g, s))

\* (3) is reached only when (1) and (2) pass; it subscripts ADJACENT_STATES
ReachesReverseCheck(as, a, s, g) ==
    /\ ~SameStateViolation(as, a, s)
    /\ ~AdjacencyViolation(as, a, s, g)

\* check (3) left out
ReverseThreatViolation_Omitted(as, a, s, g, occ) == FALSE

\* (3) an adjacent state is occupied by a name whose first animal's threat is a
ReverseThreatViolation(as, a, s, g, occ) ==
    \E n \in 1..Len(g[s]) :
        LET adj_state == g[s][n]
        IN  /\ adj_state \in DOMAIN occ
            /\ LET adj_animal == FindByName(as, occ[adj_state])
               IN  adj_animal # None /\ as[adj_animal].threat = a.name

\* the value of `safe` after the if / elif / else
Safe(as, a, s, g, occ) ==
    IF SameStateViolation(as, a, s) THEN FALSE
    ELSE IF AdjacencyViolation(as, a, s, g) THEN FALSE
    ELSE ~ReverseThreatViolation(as, a, s, g, occ)

\* a new dict at every placement instead of an update
Record_Fresh(occ, s, name) == [x \in {s} |-> name]

\* occupied[state] = animal.name
Record(occ, s, name) ==
    [x \in DOMAIN occ \cup {s} |-> IF x = s THEN name ELSE occ[x]]

EmptyDict == [x \in {} |-> None]

(***************************************************************************)
(* relocate_animals: one action per turn of the inner loop.                *)
(***************************************************************************)
Scanning == pc = "scan" /\ idx <= Len(animals) /\ sidx <= Len(state_order)

\* `if state in occupied: continue`
SkipOccupied ==
    /\ Scanning
    /\ IsOccupied(occupied, state_order[sidx])
    /\ sidx' = sidx + 1
    /\ UNCHANGED <<animals, graph, occupied, idx, pc, call, snapshot, relocated_count, japanVars>>

\* the candidate is not safe: the loop goes on to the next state
Reject ==
    /\ Scanning
    /\ ~IsOccupied(occupied, state_order[sidx])
    /\ ReachesReverseCheck(animals, animals[idx], state_order[sidx], graph)
            => state_order[sidx] \in DOMAIN graph
    /\ ~Safe(animals, animals[idx], state_order[sidx], graph, occupied)
    /\ sidx' = sidx + 1
    /\ UNCHANGED <<animals, graph, occupied, idx, pc, call, snapshot, relocated_count, japanVars>>

\* `if safe:` set_state, occupied[state] = name, break
Place ==
    /\ Scanning
    /\ ~IsOccupied(occupied, state_order[sidx])
    /\ ReachesReverseCheck(animals, animals[idx], state_order[sidx], graph)
            => state_order[sidx] \in DOMAIN graph
    /\ Safe(animals, animals[idx], state_order[sidx], graph, occupied)
    /\ animals' = [animals EXCEPT ![idx] = set_state(@, state_order[sidx], graph)]
    /\ occupied' = Record(occupied, state_order[sidx], animals[idx].name)
    /\ idx' = idx + 1
    /\ sidx' = 1
    /\ UNCHANGED <<graph, pc, call, snapshot, relocated_count, japanVars>>

\* `if not placed: animal.set_state('ACT')`
NotPlaced ==
    /\ pc = "scan"
    /\ idx <= Len(animals)
    /\ sidx > Len(state_order)
    /\ animals' = [animals EXCEPT ![idx] = set_state(@, ACT, graph)]
    /\ idx' = idx + 1
    /\ sidx' = 1
    /\ UNCHANGED <<graph, occupied, pc, call, snapshot, relocated_count, japanVars>>

\* main: relocated_count = sum(1 for a in animals if a.get_state() != 'ACT')
RelocatedCount(as) == Cardinality({k \in 1..Len(as) : get_state(as[k]) # ACT})

\* the outer loop is exhausted: relocate_animals returns, main counts
Return ==
    /\ pc = "scan"
    /\ idx > Len(animals)
    /\ pc' = "returned"
    /\ relocated_count' = RelocatedCount(animals)
    /\ UNCHANGED <<animals, graph, occupied, idx, sidx, call, snapshot, japanVars>>

\* the caller keeps what each get_state() returned and calls relocate_animals
\* again on the same objects: occupied is a fresh dict, the states are not reset
CallAgain ==
    /\ pc = "returned"
    /\ call < MaxCalls
    /\ snapshot' = [k \in 1..Len(animals) |-> get_state(animals[k])]
    /\ call' = call + 1
    /\ occupied' = EmptyDict
    /\ idx' = 1
    /\ sidx' = 1
    /\ pc' = "scan"
    /\ UNCHANGED <<animals, graph, relocated_count, japanVars>>

\* ADJACENT_STATES[state] in the else branch, for a state that is no key
RaiseKeyError ==
    /\ Scanning
    /\ ~IsOccupied(occupied, state_order[sidx])
    /\ ReachesReverseCheck(animals, animals[idx], state_order[sidx], graph)
    /\ state_order[sidx] \notin DOMAIN graph
    /\ pc' = "KeyError"
    /\ UNCHANGED <<animals, graph, occupied, idx, sidx, call, snapshot, relocated_count, japanVars>>

(***************************************************************************)
(* The lists of animals load_dataset can build.                            *)
(***************************************************************************)
\* the list load_dataset builds from names nm and threats th
LoadedList(nm, th) == [k \in 1..Len(nm) |-> FictionalAnimal(nm[k], th[k])]

\* the names 1..n: no name repeats
UniqueNameSeq(n) == [k \in 1..n |-> k]

\* name sequences up to renaming: each name is an earlier one or the next new one
RECURSIVE NameSeqs(_)
NameSeqs(n) ==
    IF n = 0 THEN {<<>>}
    ELSE LET Top(q) == IF q = <<>> THEN 0
                       ELSE CHOOSE m \in Range(q) : \A x \in Range(q) : x <= m
         IN  UNION {{Append(q, x) : x \in 1..(Top(q) + 1)} : q \in NameSeqs(n - 1)}

\* the threats of a list: each a name of the list or a name of no animal
ThreatSeqs(nm) == [1..Len(nm) -> {NoSuchName} \cup Range(nm)]

\* japan.py is not running
JapanIdle ==
    /\ perfect_blade = <<>>
    /\ imperfect_blade = <<>>
    /\ max_width = 1
    /\ min_similarity = <<0, 1>>
    /\ score = <<0, 1>>
    /\ output = <<>>
    /\ reforges = 0
    /\ jpc = "idle"

InitCall ==
    /\ JapanIdle
    /\ occupied = EmptyDict
    /\ idx = 1
    /\ sidx = 1
    /\ pc = "scan"
    /\ call = 1
    /\ snapshot = <<>>
    /\ relocated_count = -1

Init ==
    /\ \E n \in 0..NumAnimals :
          \E th \in ThreatSeqs(UniqueNameSeq(n)) :
              animals = LoadedList(UniqueNameSeq(n), th)
    /\ graph = ADJACENT_STATES
    /\ InitCall

Next ==
    \/ SkipOccupied
    \/ Reject
    \/ Place
    \/ NotPlaced
    \/ Return
    \/ CallAgain

Spec == Init /\ [][Next]_vars

\* main's single call of relocate_animals, on lists whose names may repeat
InitDup ==
    /\ \E n \in 0..DupAnimals :
          \E nm \in NameSeqs(n) :
              \E th \in ThreatSeqs(nm) : animals = LoadedList(nm, th)
    /\ graph = ADJACENT_STATES
    /\ InitCall

NextOnce ==
    \/ SkipOccupied
    \/ Reject
    \/ Place
    \/ NotPlaced
    \/ Return

SpecDup == InitDup /\ [][NextOnce]_vars

\* the same program when ADJACENT_STATES may lack one entry
InitGraph ==
    /\ \E n \in 0..NumAnimals :
          \E th \in ThreatSeqs(UniqueNameSeq(n)) :
              animals = LoadedList(UniqueNameSeq(n), th)
    /\ \E missing \in SUBSET States :
          /\ Cardinality(missing) <= 1
          /\ graph = [s \in States \ missing |-> ADJACENT_STATES[s]]
    /\ InitCall

NextGraph ==
    \/ Next
    \/ RaiseKeyError

SpecGraph == InitGraph /\ [][NextGraph]_vars

(***************************************************************************)
(* japan.py: the similarity score.  A float is kept as an exact fraction    *)
(* <<numerator, denominator>> with a positive denominator.                 *)
(***************************************************************************)
Min(a, b) == IF a < b THEN a ELSE b

Max(a, b) == IF a > b THEN a ELSE b

\* line_sim of one pair of lines, from their counts of '#'
LineSim(p_cnt, i_cnt) ==
    IF p_cnt = 0 /\ i_cnt = 0 THEN <<1, 1>>
    ELSE <<Min(p_cnt, i_cnt), Max(p_cnt, i_cnt)>>

AddFrac(x, y) == <<x[1] * y[2] + y[1] * x[2], x[2] * y[2]>>

\* sim_sum over zip(perfect_blade, imperfect_blade): the first n pairs
RECURSIVE SimSum(_, _, _)
SimSum(perfect, imperfect, n) ==
    IF n = 0 THEN <<0, 1>>
    ELSE AddFrac(SimSum(perfect, imperfect, n - 1), LineSim(perfect[n], imperfect[n]))

\* get_similarity_score: sim_sum / total, or 1.0 for a perfect blade of no lines
get_similarity_score(perfect, imperfect) ==
    LET total == Len(perfect)
    IN  IF total = 0 THEN <<1, 1>>
        ELSE LET sim_sum == SimSum(perfect, imperfect, Min(Len(perfect), Len(imperfect)))
             IN  <<sim_sum[1], sim_sum[2] * total>>

\* x < y on fractions
Less(x, y) == x[1] * y[2] < y[1] * x[2]

\* the loop going on at a score equal to the threshold as well
WhileCondition_OrEqual(sc, ms) == ~Less(ms, sc)

\* `while score < min_similarity`
WhileCondition(sc, ms) == Less(sc, ms)

\* `if score < min_similarity` before each verdict
Denied(sc, ms) == Less(sc, ms)

(***************************************************************************)
(* japan.py: main.                                                         *)
(***************************************************************************)
\* the values float(sys.argv[2]) takes in the model: three inside 0..1, two outside
SimArgs == {<<0, 1>>, <<1, 2>>, <<1, 1>>, <<-1, 2>>, <<3, 2>>}

\* sys.argv and the file system as main's checks see them
Argvs ==
    [argc : {2, 3}, ends_bp : BOOLEAN, is_float : BOOLEAN, exists : BOOLEAN,
     sim : SimArgs]

\* the five checks of main, in order; each failure prints an error and exits
ArgsValid(argv) ==
    /\ argv.argc = 3
    /\ argv.ends_bp
    /\ argv.is_float
    /\ argv.exists
    /\ ~Less(argv.sim, <<0, 1>>) /\ ~Less(<<1, 1>>, argv.sim)

\* one of the checks fails: sys.exit(1)
ValidateFail ==
    /\ jpc = "start"
    /\ \E argv \in Argvs : ~ArgsValid(argv)
    /\ jpc' = "exit1"
    /\ UNCHANGED <<perfect_blade, imperfect_blade, max_width, min_similarity, score,
                   output, reforges, ausVars>>

\* all checks pass: ">> READING IN BLUEPRINTS."
ValidateOk ==
    /\ jpc = "start"
    /\ \E argv \in Argvs :
          /\ ArgsValid(argv)
          /\ min_similarity' = argv.sim
    /\ jpc' = "analyse_first"
    /\ UNCHANGED <<perfect_blade, imperfect_blade, max_width, score, output,
                   reforges, ausVars>>

\* the first analysis: ">> ANALYSING THEIR SIMILARITY." and the score
AnalyseFirst ==
    /\ jpc = "analyse_first"
    /\ score' = get_similarity_score(perfect_blade, imperfect_blade)
    /\ output' = Append(output, "ANALYSING")
    /\ jpc' = "verdict_first"
    /\ UNCHANGED <<perfect_blade, imperfect_blade, max_width, min_similarity,
                   reforges, ausVars>>

\* the first verdict: Denied goes on to the loop, Accepted returns
VerdictFirst ==
    /\ jpc = "verdict_first"
    /\ IF Denied(score, min_similarity)
       THEN output' = Append(output, "Denied") /\ jpc' = "while"
       ELSE output' = Append(output, "Accepted") /\ jpc' = "done"
    /\ UNCHANGED <<perfect_blade, imperfect_blade, max_width, min_similarity, score,
                   reforges, ausVars>>

\* the while test fails: main returns
WhileExit ==
    /\ jpc = "while"
    /\ ~WhileCondition(score, min_similarity)
    /\ jpc' = "done"
    /\ UNCHANGED <<perfect_blade, imperfect_blade, max_width, min_similarity, score,
                   output, reforges, ausVars>>

\* reforge_imperfect_katana: one accepted input in 1..max_width per line of the
\* perfect blade; the blade of the imperfect blueprint is rewritten
Reforge ==
    /\ jpc = "while"
    /\ WhileCondition(score, min_similarity)
    /\ reforges < MaxReforges
    /\ \E new_blade_counts \in [1..Len(perfect_blade) -> 1..max_width] :
          imperfect_blade' = new_blade_counts
    /\ output' = Append(output, "REFORGING")
    /\ reforges' = reforges + 1
    /\ jpc' = "analyse_loop"
    /\ UNCHANGED <<perfect_blade, max_width, min_similarity, score, ausVars>>

\* the analysis inside the loop
AnalyseLoop ==
    /\ jpc = "analyse_loop"
    /\ score' = get_similarity_score(perfect_blade, imperfect_blade)
    /\ output' = Append(output, "ANALYSING")
    /\ jpc' = "verdict_loop"
    /\ UNCHANGED <<perfect_blade, imperfect_blade, max_width, min_similarity,
                   reforges, ausVars>>

\* the verdict inside the loop; both branches go back to the while test
VerdictLoop ==
    /\ jpc = "verdict_loop"
    /\ IF Denied(score, min_similarity)
       THEN output' = Append(output, "Denied")
       ELSE output' = Append(output, "Accepted")
    /\ jpc' = "while"
    /\ UNCHANGED <<perfect_blade, imperfect_blade, max_width, min_similarity, score,
                   reforges, ausVars>>

\* blade lines of a blueprint file, as counts of '#'
Blades == UNION {[1..n -> 0..MaxWidth] : n \in 0..MaxLines}

\* relocate_animals is not running
AustraliaIdle ==
    /\ animals = <<>>
    /\ graph = ADJACENT_STATES
    /\ occupied = EmptyDict
    /\ idx = 1
    /\ sidx = 1
    /\ pc = "idle"
    /\ call = 1
    /\ snapshot = <<>>
    /\ relocated_count = -1

InitJapan ==
    /\ AustraliaIdle
    /\ perfect_blade \in Blades
    /\ imperfect_blade \in Blades
    /\ max_width \in 1..MaxWidth
    /\ min_similarity = <<0, 1>>
    /\ score = <<0, 1>>
    /\ output = <<>>
    /\ reforges = 0
    /\ jpc = "start"

NextJapan ==
    \/ ValidateFail
    \/ ValidateOk
    \/ AnalyseFirst
    \/ VerdictFirst
    \/ WhileExit
    \/ Reforge
    \/ AnalyseLoop
    \/ VerdictLoop

SpecJapan == InitJapan /\ [][NextJapan]_vars

(***************************************************************************)
(* The claims about relocate_animals.                                      *)
(***************************************************************************)
StateOf(k) == get_state(animals[k])

All == 1..Len(animals)

\* the animals whose turn in the running scan is over
Processed == 1..(idx - 1)

UniqueNames == \A k, m \in All : animals[k].name = animals[m].name => k = m

\* C1: while relocate_animals scans, every state of the occupied table holds
\* exactly one animal placed by this scan and every animal placed by this scan
\* is in the table; when it returns no two animals share a state other than ACT.
C1_NoDoubleOccupancy ==
    /\ DOMAIN occupied \subseteq States
    /\ \A s \in DOMAIN occupied :
          Cardinality({k \in Processed : StateOf(k) = s}) = 1
    /\ \A k \in Processed : StateOf(k) # ACT => StateOf(k) \in DOMAIN occupied
    /\ pc = "returned" =>
          \A k, m \in All : (k # m /\ StateOf(k) # ACT) => StateOf(k) # StateOf(m)

C1_Witness ==
    /\ pc = "returned"
    /\ call = 2
    /\ Cardinality(DOMAIN occupied) >= 3
    /\ \E k \in All : StateOf(k) = ACT

\* C2: after the first call on animals with unique names, an animal placed in
\* a real state whose threat is another placed animal is neither in the
\* threat's state nor has the threat in a state listed adjacent to its own.
C2_NoThreatNearby ==
    (pc = "returned" /\ call = 1) =>
        \A x, t \in All :
            (/\ x # t
             /\ animals[x].threat = animals[t].name
             /\ StateOf(x) # ACT
             /\ StateOf(t) # ACT)
            => /\ StateOf(t) # StateOf(x)
               /\ StateOf(t) \notin Range(ADJACENT_STATES[StateOf(x)])

\* both orders happen in one list: a threat placed before and one placed after
C2_Witness ==
    /\ pc = "returned"
    /\ call = 1
    /\ \E x, t \in All :
          x < t /\ animals[x].threat = animals[t].name
                /\ StateOf(x) # ACT /\ StateOf(t) # ACT
    /\ \E x, t \in All :
          x > t /\ animals[x].threat = animals[t].name
                /\ StateOf(x) # ACT /\ StateOf(t) # ACT

\* C3: when the second call of relocate_animals on the same animal objects
\* returns, every animal has the state the first call gave it.
C3_RerunSameStates ==
    (pc = "returned" /\ call = 2) =>
        \A k \in All : StateOf(k) = snapshot[k]

\* the order of candidate states as the docstring of relocate_animals gives it
C4_Order == <<"NSW", "QLD", "VIC", "TAS", "SA", "NT", "WA">>

\* the candidate is free and passes the three checks, in the words of the claim
C4_Fits(k, s) ==
    /\ s \notin DOMAIN occupied
    /\ LET t == FindByName(animals, animals[k].threat)
       IN  t # None =>
              /\ StateOf(t) # s
              /\ StateOf(t) \notin Range(ADJACENT_STATES[s])
    /\ ~\E m \in Processed :
          /\ StateOf(m) \in Range(ADJACENT_STATES[s])
          /\ animals[m].threat = animals[k].name

C4_FirstFit(k) ==
    IF \E n \in 1..Len(C4_Order) : C4_Fits(k, C4_Order[n])
    THEN C4_Order[CHOOSE n \in 1..Len(C4_Order) :
                     /\ C4_Fits(k, C4_Order[n])
                     /\ \A n2 \in 1..(n - 1) : ~C4_Fits(k, C4_Order[n2])]
    ELSE ACT

\* C4: the step that ends an animal's turn leaves it in the first state of the
\* fixed order that was free and passed the three checks at its turn, and at
\* ACT exactly when there was no such state.
C4_GreedyFirstFit ==
    [][(pc = "scan" /\ idx' = idx + 1) =>
            get_state(animals'[idx]) = C4_FirstFit(idx)]_vars

\* C4 as amended: the same, for lists whose names are unique.
C4_GreedyFirstFitUnique ==
    [][(pc = "scan" /\ idx' = idx + 1 /\ UniqueNames) =>
            get_state(animals'[idx]) = C4_FirstFit(idx)]_vars

\* in a list of unique names one animal passed over five states and was placed,
\* and another found no state and was left at ACT
C4_Witness ==
    /\ UniqueNames
    /\ \E k \in Processed : StateOf(k) = "NT"
    /\ \E k \in Processed : StateOf(k) = ACT

\* C5: after the first call on animals with unique names, the occupied table
\* records an animal's name at a state exactly when get_state() gives that
\* state, and main's relocated count is the number of entries of the table.
C5_TableMatchesAccessor ==
    (pc = "returned" /\ call = 1) =>
        /\ \A s \in States, k \in All :
              (s \in DOMAIN occupied /\ occupied[s] = animals[k].name)
                  <=> get_state(animals[k]) = s
        /\ relocated_count = Cardinality(DOMAIN occupied)

C5_Witness ==
    /\ pc = "returned"
    /\ call = 1
    /\ relocated_count >= 3
    /\ "TAS" \in DOMAIN occupied
    /\ \E k \in All : StateOf(k) = ACT

\* C6: the scan never ends in an error, also when a candidate state has no
\* entry in the adjacency table.
C6_NoErrorOnUnknownState == pc # "KeyError"

\* C8: within one scan no entry of the occupied table is removed or changed,
\* no animal whose turn is over changes state, and a step changes the state of
\* no animal but the current one, whose turn that step ends.
C8_Irrevocable ==
    [][call' = call =>
          /\ \A s \in DOMAIN occupied :
                s \in DOMAIN occupied' /\ occupied'[s] = occupied[s]
          /\ \A k \in Processed : get_state(animals'[k]) = StateOf(k)
          /\ \A k \in All :
                get_state(animals'[k]) # StateOf(k) => (k = idx /\ idx' = idx + 1)
          /\ idx' >= idx]_vars

C8_Witness ==
    /\ pc = "scan"
    /\ idx > 3
    /\ Cardinality(DOMAIN occupied) >= 3

\* C9: whenever the scan tries a free candidate state for an animal whose
\* threat is its own name, neither the same-state check nor the adjacency check
\* rejects the candidate.
C9_SelfThreatNeverRejected ==
    (/\ Scanning
     /\ animals[idx].threat = animals[idx].name
     /\ ~IsOccupied(occupied, state_order[sidx]))
    => /\ ~SameStateViolation(animals, animals[idx], state_order[sidx])
       /\ ~AdjacencyViolation(animals, animals[idx], state_order[sidx], graph)

\* C10: during the first call on animals with unique names, an animal whose
\* turn is over and that is at ACT has an earlier animal of the list in TAS.
C10_UnplacedOnlyIfTasTaken ==
    call = 1 =>
        \A k \in Processed :
            StateOf(k) = ACT => \E m \in 1..(k - 1) : StateOf(m) = "TAS"

C10_Witness ==
    /\ call = 1
    /\ \E k \in Processed : StateOf(k) = ACT

(***************************************************************************)
(* The claim about japan.py.                                               *)
(***************************************************************************)
Positions(line) == {n \in 1..Len(output) : output[n] = line}

====
